---- MODULE Spec2Model ----
(***************************************************************************)
(* samples/custom/sm5/opaque_header.h is a C header of eight lines: two     *)
(* comment lines, a typedef of struct _OpaqueItem, a blank line and the     *)
(* constant gOpaqueValue.  The header has no functions, so it has no        *)
(* run-time steps of its own.  Its meaning is what a C translator makes of  *)
(* its bytes: the model reads the bytes one at a time (lines, comments,     *)
(* tokens), then reads the tokens one at a time (declarations), and ends in *)
(* the program state the header gives a translation unit that includes it.  *)
(* Characters are one-character strings.                                    *)
(***************************************************************************)
EXTENDS Integers, Sequences, FiniteSets, TLC

VARIABLES phase, pos, cur, lines, inComment, word, toks,
          ti, pstate, d, s, tags, typedefs, objects

vars == << phase, pos, cur, lines, inComment, word, toks,
           ti, pstate, d, s, tags, typedefs, objects >>
scanVars == << pos, cur, lines, inComment, word, toks >>
parseVars == << ti, pstate, d, s >>
declVars == << tags, typedefs, objects >>

(***************************************************************************)
(* The bytes of the header, line by line.                                   *)
(***************************************************************************)
\* // Non-HLSL helper header that should be ignored by the preprocessor.
FileLine1 ==
    << "/", "/", " ", "N", "o", "n", "-", "H", "L", "S", "L", " ", "h", "e", "l", "p",
       "e", "r", " ", "h", "e", "a", "d", "e", "r", " ", "t", "h", "a", "t", " ", "s",
       "h", "o", "u", "l", "d", " ", "b", "e", " ", "i", "g", "n", "o", "r", "e", "d",
       " ", "b", "y", " ", "t", "h", "e", " ", "p", "r", "e", "p", "r", "o", "c", "e",
       "s", "s", "o", "r", "." >>

\* // Contains C-style declarations that are not valid HLSL.
FileLine2 ==
    << "/", "/", " ", "C", "o", "n", "t", "a", "i", "n", "s", " ", "C", "-", "s", "t",
       "y", "l", "e", " ", "d", "e", "c", "l", "a", "r", "a", "t", "i", "o", "n", "s",
       " ", "t", "h", "a", "t", " ", "a", "r", "e", " ", "n", "o", "t", " ", "v", "a",
       "l", "i", "d", " ", "H", "L", "S", "L", "." >>

\* The line without its storage class: the declarator then names an object.
\* struct _OpaqueItem {
FileLine3_NoTypedef ==
    << "s", "t", "r", "u", "c", "t", " ", "_", "O", "p", "a", "q", "u", "e", "I", "t",
       "e", "m", " ", "{" >>

\* typedef struct _OpaqueItem {
FileLine3 ==
    << "t", "y", "p", "e", "d", "e", "f", " ", "s", "t", "r", "u", "c", "t", " ", "_",
       "O", "p", "a", "q", "u", "e", "I", "t", "e", "m", " ", "{" >>

\* The line with one more member.
\*     int count; int extra;
FileLine4_ThirdField ==
    << " ", " ", " ", " ", "i", "n", "t", " ", "c", "o", "u", "n", "t", ";", " ", "i",
       "n", "t", " ", "e", "x", "t", "r", "a", ";" >>

\*     int count;
FileLine4 ==
    << " ", " ", " ", " ", "i", "n", "t", " ", "c", "o", "u", "n", "t", ";" >>

\*     int flags;
FileLine5 ==
    << " ", " ", " ", " ", "i", "n", "t", " ", "f", "l", "a", "g", "s", ";" >>

\* } OpaqueItem;
FileLine6 ==
    << "}", " ", "O", "p", "a", "q", "u", "e", "I", "t", "e", "m", ";" >>

\* The separating line with a stray space on it.
\*  
FileLine7_Space ==
    << " " >>

\* The separating line with a comment on it.
\* // end of OpaqueItem
FileLine7_Comment ==
    << "/", "/", " ", "e", "n", "d", " ", "o", "f", " ", "O", "p", "a", "q", "u", "e",
       "I", "t", "e", "m" >>

\* (blank line)
FileLine7 ==
    << >>

\* The line without its const qualifier.
\* static int gOpaqueValue = 7;
FileLine8_NoConst ==
    << "s", "t", "a", "t", "i", "c", " ", "i", "n", "t", " ", "g", "O", "p", "a", "q",
       "u", "e", "V", "a", "l", "u", "e", " ", "=", " ", "7", ";" >>

\* static const int gOpaqueValue = 7;
FileLine8 ==
    << "s", "t", "a", "t", "i", "c", " ", "c", "o", "n", "s", "t", " ", "i", "n", "t",
       " ", "g", "O", "p", "a", "q", "u", "e", "V", "a", "l", "u", "e", " ", "=", " ",
       "7", ";" >>

\* The file: its eight lines joined by line feeds; the last line has no
\* line feed after it.
FileBytes ==
    FileLine1 \o << "\n" >> \o FileLine2 \o << "\n" >> \o FileLine3 \o << "\n" >> \o
    FileLine4 \o << "\n" >> \o FileLine5 \o << "\n" >> \o FileLine6 \o << "\n" >> \o
    FileLine7 \o << "\n" >> \o FileLine8

(***************************************************************************)
(* The literal content reproduced in section 6 of the specification, line  *)
(* by line.                                                                 *)
(***************************************************************************)
\* typedef struct _OpaqueItem {
Sec6Line1 ==
    << "t", "y", "p", "e", "d", "e", "f", " ", "s", "t", "r", "u", "c", "t", " ", "_",
       "O", "p", "a", "q", "u", "e", "I", "t", "e", "m", " ", "{" >>

\*     int count;
Sec6Line2 ==
    << " ", " ", " ", " ", "i", "n", "t", " ", "c", "o", "u", "n", "t", ";" >>

\*     int flags;
Sec6Line3 ==
    << " ", " ", " ", " ", "i", "n", "t", " ", "f", "l", "a", "g", "s", ";" >>

\* } OpaqueItem;
Sec6Line4 ==
    << "}", " ", "O", "p", "a", "q", "u", "e", "I", "t", "e", "m", ";" >>

\* (blank line)
Sec6Line5 ==
    << >>

\* static const int gOpaqueValue = 7;
Sec6Line6 ==
    << "s", "t", "a", "t", "i", "c", " ", "c", "o", "n", "s", "t", " ", "i", "n", "t",
       " ", "g", "O", "p", "a", "q", "u", "e", "V", "a", "l", "u", "e", " ", "=", " ",
       "7", ";" >>

Sec6Lines ==
    << Sec6Line1, Sec6Line2, Sec6Line3, Sec6Line4, Sec6Line5, Sec6Line6 >>

(***************************************************************************)
(* C lexical classes used by the header.                                    *)
(***************************************************************************)
Digits == { "0", "1", "2", "3", "4", "5", "6", "7", "8", "9" }

WordChars ==
    { "a", "b", "c", "d", "e", "f", "g", "h", "i", "j", "k", "l", "m",
      "n", "o", "p", "q", "r", "s", "t", "u", "v", "w", "x", "y", "z",
      "A", "B", "C", "D", "E", "F", "G", "H", "I", "J", "K", "L", "M",
      "N", "O", "P", "Q", "R", "S", "T", "U", "V", "W", "X", "Y", "Z",
      "_" } \cup Digits

Puncts == { "{", "}", ";", "=" }

Keywords == { "typedef", "static", "const", "int", "struct" }

\* Width of int in bits.
IntBits == 32

RECURSIVE Str(_)
Str(w) == IF w = << >> THEN "" ELSE Head(w) \o Str(Tail(w))

DigitVal(c) ==
    CASE c = "0" -> 0 [] c = "1" -> 1 [] c = "2" -> 2 [] c = "3" -> 3
      [] c = "4" -> 4 [] c = "5" -> 5 [] c = "6" -> 6 [] c = "7" -> 7
      [] c = "8" -> 8 [] c = "9" -> 9

RECURSIVE NumVal(_)
NumVal(w) ==
    IF w = << >> THEN 0
    ELSE NumVal(SubSeq(w, 1, Len(w) - 1)) * 10 + DigitVal(w[Len(w)])

IsNumber(w) == w # << >> /\ \A i \in 1..Len(w) : w[i] \in Digits

MkTok(w, ln) ==
    [ kind |-> IF IsNumber(w) THEN "num" ELSE "word",
      text |-> Str(w),
      val  |-> IF IsNumber(w) THEN NumVal(w) ELSE 0,
      line |-> ln ]

\* A delimiter ends the word being read, if there is one.
Flush(ts, w, ln) == IF w = << >> THEN ts ELSE Append(ts, MkTok(w, ln))

NoType == [ kind |-> "none", tag |-> "" ]
IntType == [ kind |-> "int", tag |-> "" ]
StructType(t) == [ kind |-> "struct", tag |-> t ]

NoDecl ==
    [ typedef |-> FALSE, static |-> FALSE, const |-> FALSE, base |-> NoType,
      name |-> "", hasInit |-> FALSE, init |-> 0, lines |-> {} ]

NoStruct == [ tag |-> "", fields |-> << >>, fname |-> "" ]

Init ==
    /\ phase = "scan"
    /\ pos = 1
    /\ cur = << >>
    /\ lines = << >>
    /\ inComment = FALSE
    /\ word = << >>
    /\ toks = << >>
    /\ ti = 1
    /\ pstate = "spec"
    /\ d = NoDecl
    /\ s = NoStruct
    /\ tags = {}
    /\ typedefs = {}
    /\ objects = {}

(***************************************************************************)
(* Reading the bytes: lines, comments and tokens.                           *)
(***************************************************************************)
Ch == FileBytes[pos]
LineNo == Len(lines) + 1
Scanning == phase = "scan" /\ pos <= Len(FileBytes)

\* A line feed ends the line, the comment and the word.
ScanLineFeed ==
    /\ Scanning
    /\ Ch = "\n"
    /\ lines' = Append(lines, cur)
    /\ cur' = << >>
    /\ inComment' = FALSE
    /\ toks' = Flush(toks, word, LineNo)
    /\ word' = << >>
    /\ pos' = pos + 1
    /\ UNCHANGED << phase, parseVars, declVars >>

\* Two slashes start a comment that runs to the end of the line.
ScanCommentStart ==
    /\ Scanning
    /\ ~inComment
    /\ Ch = "/"
    /\ pos < Len(FileBytes)
    /\ FileBytes[pos + 1] = "/"
    /\ inComment' = TRUE
    /\ cur' = Append(cur, Ch)
    /\ toks' = Flush(toks, word, LineNo)
    /\ word' = << >>
    /\ pos' = pos + 1
    /\ UNCHANGED << phase, lines, parseVars, declVars >>

\* The text of a comment belongs to its line and to no token.
ScanCommentChar ==
    /\ Scanning
    /\ inComment
    /\ Ch # "\n"
    /\ cur' = Append(cur, Ch)
    /\ pos' = pos + 1
    /\ UNCHANGED << phase, lines, inComment, word, toks, parseVars, declVars >>

ScanSpace ==
    /\ Scanning
    /\ ~inComment
    /\ Ch = " "
    /\ cur' = Append(cur, Ch)
    /\ toks' = Flush(toks, word, LineNo)
    /\ word' = << >>
    /\ pos' = pos + 1
    /\ UNCHANGED << phase, lines, inComment, parseVars, declVars >>

ScanWordChar ==
    /\ Scanning
    /\ ~inComment
    /\ Ch \in WordChars
    /\ cur' = Append(cur, Ch)
    /\ word' = Append(word, Ch)
    /\ pos' = pos + 1
    /\ UNCHANGED << phase, lines, inComment, toks, parseVars, declVars >>

ScanPunct ==
    /\ Scanning
    /\ ~inComment
    /\ Ch \in Puncts
    /\ cur' = Append(cur, Ch)
    /\ toks' = Append(Flush(toks, word, LineNo),
                      [ kind |-> "punct", text |-> Ch, val |-> 0, line |-> LineNo ])
    /\ word' = << >>
    /\ pos' = pos + 1
    /\ UNCHANGED << phase, lines, inComment, parseVars, declVars >>

\* The end of the file ends the last line, which has no line feed.
ScanEOF ==
    /\ phase = "scan"
    /\ pos = Len(FileBytes) + 1
    /\ lines' = IF cur = << >> THEN lines ELSE Append(lines, cur)
    /\ cur' = << >>
    /\ inComment' = FALSE
    /\ toks' = Flush(toks, word, LineNo)
    /\ word' = << >>
    /\ phase' = "parse"
    /\ UNCHANGED << pos, parseVars, declVars >>

(***************************************************************************)
(* Reading the tokens: the declarations at file scope.                      *)
(***************************************************************************)
Parsing == phase = "parse" /\ ti <= Len(toks)
Tok == toks[ti]
IsIdent(t) == t.kind = "word" /\ t.text \notin Keywords
Took(decl) == [ decl EXCEPT !.lines = @ \cup { Tok.line } ]

\* typedef, static, const
ParseSpecifier ==
    /\ Parsing
    /\ pstate = "spec"
    /\ Tok.kind = "word"
    /\ Tok.text \in { "typedef", "static", "const" }
    /\ d' = [ Took(d) EXCEPT !.typedef = @ \/ Tok.text = "typedef",
                             !.static  = @ \/ Tok.text = "static",
                             !.const   = @ \/ Tok.text = "const" ]
    /\ ti' = ti + 1
    /\ UNCHANGED << phase, scanVars, pstate, s, declVars >>

ParseInt ==
    /\ Parsing
    /\ pstate = "spec"
    /\ Tok.kind = "word" /\ Tok.text = "int"
    /\ d' = [ Took(d) EXCEPT !.base = IntType ]
    /\ ti' = ti + 1
    /\ UNCHANGED << phase, scanVars, pstate, s, declVars >>

ParseStruct ==
    /\ Parsing
    /\ pstate = "spec"
    /\ Tok.kind = "word" /\ Tok.text = "struct"
    /\ d' = Took(d)
    /\ s' = NoStruct
    /\ pstate' = "tag"
    /\ ti' = ti + 1
    /\ UNCHANGED << phase, scanVars, declVars >>

ParseTag ==
    /\ Parsing
    /\ pstate = "tag"
    /\ IsIdent(Tok)
    /\ d' = Took(d)
    /\ s' = [ s EXCEPT !.tag = Tok.text ]
    /\ pstate' = "open"
    /\ ti' = ti + 1
    /\ UNCHANGED << phase, scanVars, declVars >>

ParseOpen ==
    /\ Parsing
    /\ pstate = "open"
    /\ Tok.kind = "punct" /\ Tok.text = "{"
    /\ d' = Took(d)
    /\ pstate' = "field"
    /\ ti' = ti + 1
    /\ UNCHANGED << phase, scanVars, s, declVars >>

ParseFieldType ==
    /\ Parsing
    /\ pstate = "field"
    /\ Tok.kind = "word" /\ Tok.text = "int"
    /\ d' = Took(d)
    /\ pstate' = "fname"
    /\ ti' = ti + 1
    /\ UNCHANGED << phase, scanVars, s, declVars >>

ParseFieldName ==
    /\ Parsing
    /\ pstate = "fname"
    /\ IsIdent(Tok)
    /\ d' = Took(d)
    /\ s' = [ s EXCEPT !.fname = Tok.text ]
    /\ pstate' = "fsemi"
    /\ ti' = ti + 1
    /\ UNCHANGED << phase, scanVars, declVars >>

ParseFieldEnd ==
    /\ Parsing
    /\ pstate = "fsemi"
    /\ Tok.kind = "punct" /\ Tok.text = ";"
    /\ d' = Took(d)
    /\ s' = [ s EXCEPT !.fields = Append(@, [ name |-> s.fname, type |-> IntType ]),
                       !.fname = "" ]
    /\ pstate' = "field"
    /\ ti' = ti + 1
    /\ UNCHANGED << phase, scanVars, declVars >>

\* The closing brace completes the struct type; its tag is declared.
ParseClose ==
    /\ Parsing
    /\ pstate = "field"
    /\ Tok.kind = "punct" /\ Tok.text = "}"
    /\ tags' = tags \cup { [ tag |-> s.tag, fields |-> s.fields ] }
    /\ d' = [ Took(d) EXCEPT !.base = StructType(s.tag) ]
    /\ s' = NoStruct
    /\ pstate' = "spec"
    /\ ti' = ti + 1
    /\ UNCHANGED << phase, scanVars, typedefs, objects >>

ParseDeclarator ==
    /\ Parsing
    /\ pstate = "spec"
    /\ d.base # NoType
    /\ IsIdent(Tok)
    /\ d' = [ Took(d) EXCEPT !.name = Tok.text ]
    /\ pstate' = "declared"
    /\ ti' = ti + 1
    /\ UNCHANGED << phase, scanVars, s, declVars >>

ParseInitStart ==
    /\ Parsing
    /\ pstate = "declared"
    /\ Tok.kind = "punct" /\ Tok.text = "="
    /\ d' = Took(d)
    /\ pstate' = "init"
    /\ ti' = ti + 1
    /\ UNCHANGED << phase, scanVars, s, declVars >>

ParseInitValue ==
    /\ Parsing
    /\ pstate = "init"
    /\ Tok.kind = "num"
    /\ d' = [ Took(d) EXCEPT !.hasInit = TRUE, !.init = Tok.val ]
    /\ pstate' = "initdone"
    /\ ti' = ti + 1
    /\ UNCHANGED << phase, scanVars, s, declVars >>

\* The semicolon completes the declaration.  With typedef the name is
\* declared as a type; without it the name is declared as an object, which
\* holds its initializer, or zero when it has none (static storage).
ParseEnd ==
    /\ Parsing
    /\ pstate \in { "declared", "initdone" }
    /\ Tok.kind = "punct" /\ Tok.text = ";"
    /\ IF d.typedef
       THEN /\ typedefs' = typedefs \cup
                  { [ name |-> d.name, type |-> d.base, lines |-> Took(d).lines ] }
            /\ UNCHANGED objects
       ELSE /\ objects' = objects \cup
                  { [ name |-> d.name, type |-> d.base, const |-> d.const,
                      value |-> IF d.hasInit THEN d.init ELSE 0,
                      lines |-> Took(d).lines ] }
            /\ UNCHANGED typedefs
    /\ d' = NoDecl
    /\ pstate' = "spec"
    /\ ti' = ti + 1
    /\ UNCHANGED << phase, scanVars, s, tags >>

\* After the last token the translation unit is complete.  The header has
\* no function, so the program it gives has no step after this one.
ParseEOF ==
    /\ phase = "parse"
    /\ ti = Len(toks) + 1
    /\ pstate = "spec"
    /\ d = NoDecl
    /\ phase' = "run"
    /\ UNCHANGED << scanVars, parseVars, declVars >>

Next ==
    \/ ScanLineFeed
    \/ ScanCommentStart
    \/ ScanCommentChar
    \/ ScanSpace
    \/ ScanWordChar
    \/ ScanPunct
    \/ ScanEOF
    \/ ParseSpecifier
    \/ ParseInt
    \/ ParseStruct
    \/ ParseTag
    \/ ParseOpen
    \/ ParseFieldType
    \/ ParseFieldName
    \/ ParseFieldEnd
    \/ ParseClose
    \/ ParseDeclarator
    \/ ParseInitStart
    \/ ParseInitValue
    \/ ParseEnd
    \/ ParseEOF

Spec == Init /\ [][Next]_vars

(***************************************************************************)
(* What the translation unit declares.                                      *)
(***************************************************************************)
\* The names declared at file scope (struct tags have a name space of
\* their own and name no further entity).
Entities == { t.name : t \in typedefs } \cup { o.name : o \in objects }

\* The objects of a struct type.
Instances == { o \in objects : o.type.kind = "struct" }

\* The lines holding a token of the declaration of the name n.
DeclLines(n) ==
    UNION ({ t.lines : t \in { x \in typedefs : x.name = n } } \cup
           { o.lines : o \in { x \in objects : x.name = n } })

\* A line that is a comment and nothing else.
CommentOnly(l) ==
    /\ Len(lines[l]) >= 2
    /\ lines[l][1] = "/" /\ lines[l][2] = "/"
    /\ \A i \in 1..Len(toks) : toks[i].line # l

\* An integer n is written as the pair hi, lo with n = hi * 2^16 + lo and
\* lo in 0 .. 2^16 - 1, so that integers wider than int can be written.
\* Half the range of int, in units of 2^16.
HalfRange == 2 ^ (IntBits - 17)

TypeAdmits(type, v) ==
    /\ type = IntType
    /\ v.lo \in 0..65535
    /\ v.hi >= -HalfRange /\ v.hi < HalfRange

\* The values of a struct type: one value of its type for every member
\* and nothing else.
Admissible(item, fields) ==
    /\ DOMAIN item = { fields[i].name : i \in 1..Len(fields) }
    /\ \A i \in 1..Len(fields) : TypeAdmits(fields[i].type, item[fields[i].name])

(***************************************************************************)
(* Properties.                                                              *)
(***************************************************************************)
ScanDone == phase # "scan"
Translated == phase = "run"

\* C1, as stated: the lines of the file are exactly the lines reproduced in
\* section 6, element for element and in length, with nothing before,
\* between or after them.
C1_FileIsSection6 == ScanDone => lines = Sec6Lines

\* C1, amended: the lines of the file are two comment lines followed by
\* exactly the lines reproduced in section 6, element for element, with
\* nothing else before, between or after them.
C1_FileIsCommentsThenSection6 ==
    ScanDone =>
        /\ Len(lines) = Len(Sec6Lines) + 2
        /\ CommentOnly(1) /\ CommentOnly(2)
        /\ SubSeq(lines, 3, Len(lines)) = Sec6Lines

C1_Witness == phase = "parse" /\ ti = 1 /\ Len(lines) > Len(Sec6Lines)

ProbeValues ==
    { [ hi |-> h, lo |-> l ] :
        h \in { -32769, -32768, -1, 0, 32767, 32768 }, l \in { 0, 65535 } }

\* A signed 32-bit integer: -2^31 <= hi * 2^16 + lo <= 2^31 - 1.
Signed32(v) == v.hi >= -32768 /\ v.hi <= 32767

TwoIntFields ==
    << [ name |-> "count", type |-> IntType ], [ name |-> "flags", type |-> IntType ] >>

C4_NoBehaviour ==
    /\ [](Translated => Entities = { "OpaqueItem", "gOpaqueValue" }
                        /\ Cardinality(typedefs) + Cardinality(objects) = 2)
    /\ [](Instances = {})
    /\ [][/\ \A t \in typedefs : t \in typedefs'
          /\ \A o \in objects : o \in objects'
          /\ \A sd \in tags : sd \in tags']_vars
    /\ [][Translated => UNCHANGED vars]_vars

C4_Witness ==
    Translated /\ Cardinality(Entities) = 2 /\ Instances = {}

\* C6, as stated: the file has exactly 8 lines, and every line is part of
\* the struct declaration or of the constant declaration, or is the blank
\* line that separates them.
BlankSeparator(l) ==
    /\ lines[l] = << >>
    /\ \A k \in DeclLines("OpaqueItem") : k < l
    /\ \A k \in DeclLines("gOpaqueValue") : k > l

PartOfDeclaration(l) ==
    \/ l \in DeclLines("OpaqueItem")
    \/ l \in DeclLines("gOpaqueValue")
    \/ BlankSeparator(l)

C6_EveryLineDeclares ==
    Translated =>
        /\ Len(lines) = 8
        /\ \A l \in 1..Len(lines) : PartOfDeclaration(l)

\* C6, amended: the file has exactly 8 lines; lines 1 and 2 are comment
\* lines that are part of no declaration, and every other line is part of
\* the struct declaration or of the constant declaration, or is the blank
\* line that separates them.
C6_CommentsThenDeclarations ==
    Translated =>
        /\ Len(lines) = 8
        /\ \A l \in 1..Len(lines) :
               IF l \in { 1, 2 }
               THEN CommentOnly(l) /\ ~PartOfDeclaration(l)
               ELSE PartOfDeclaration(l)

C6_Witness ==
    /\ Translated
    /\ DeclLines("OpaqueItem") # {}
    /\ DeclLines("gOpaqueValue") # {}
    /\ \E l \in 1..Len(lines) : CommentOnly(l)

====
